---- MODULE Spec2Model ----
(***************************************************************************)
(* Model of iter-skak (src/src/lib.rs): the deferred-skip wrapper Skip<I>  *)
(* and the windowing accumulator Skak built on it.                         *)
(*                                                                         *)
(* The source iterator is a finite sequence of L elements whose element at *)
(* 0-based position i is i + 1 (the vector [1..8] of tests::it_works); its *)
(* cursor is the number of elements already consumed.  usize is scaled     *)
(* down to 0..MaxUsize; the source may be longer than MaxUsize (as a       *)
(* Range<u64> or a Chain may be longer than usize::MAX).                   *)
(***************************************************************************)
EXTENDS Integers, Sequences, FiniteSets, TLC

\* ---- bounds ----
MaxUsize == 3
MaxLen == 5
MaxCalls == 3

Usize == 0..MaxUsize
\* the counts handed to Skak and to the operations on its continuation:
\* nothing, a little, and the largest usize
Counts == {0, 1, 2, MaxUsize}

Min(a, b) == IF a < b THEN a ELSE b
Max(a, b) == IF a > b THEN a ELSE b

\* usize::saturating_add / usize::saturating_sub
SatAdd(a, b) == IF a + b > MaxUsize THEN MaxUsize ELSE a + b
SatSub(a, b) == IF a - b < 0 THEN 0 ELSE a - b

\* Option / Result / return values, all of one shape
None == [tag |-> "None", v |-> << >>]
Some(x) == [tag |-> "Some", v |-> <<x>>]
Ok == [tag |-> "Ok", v |-> << >>]
Err(k) == [tag |-> "Err", v |-> <<k>>]
Counted(c) == [tag |-> "Count", v |-> <<c>>]
Acc(s) == [tag |-> "Acc", v |-> s]
Break(s) == [tag |-> "Break", v |-> s]
NoRet == [tag |-> "-", v |-> << >>]

VARIABLES
  L,          \* number of elements of the source sequence
  phase,      \* "fresh" (bare source), "live" (a Skip exists), "consumed", "panicked"
  pos,        \* Skip.iter: cursor of the wrapped source (elements consumed)
  n,          \* Skip.n: the pending skip count
  taken,      \* SkakTaken.items of the last window
  origin,     \* constructor of the Skip: "Skip::new" or "Skak::new"
  s0,         \* count handed to the constructor
  \* ---- history (ghost) ----
  lastOp,     \* operation of the last step
  arg,        \* its count argument
  ret,        \* its return value
  pre,        \* [pos, n] before it
  ovf,        \* the last step hit an integer overflow
  calls,      \* number of Skak::new / Skak::skip calls so far
  sumk,       \* mathematical sum of the requested window lengths
  delivered,  \* concatenation of all buffers returned, in call order
  ref,        \* cursor of a reference source on which every skip is applied eagerly
  refRet,     \* what the last operation returns on the reference source
  usage,      \* consuming operations run so far: "none", "next" (only next), "mixed"
  produced,   \* while usage is not "mixed": the elements returned by next so far
  visitsMat,  \* per element: times passed or yielded while materializing a window
  visitsCont  \* per element: times passed or yielded by the continuation itself

vars == <<L, phase, pos, n, taken, origin, s0, lastOp, arg, ret, pre, ovf,
          calls, sumk, delivered, ref, refRet, produced, usage, visitsMat,
          visitsCont>>

\* ---- the source iterator (external collaborator, as called by lib.rs) ----
Elem(i) == i + 1
Range(a, b) == [i \in 1..(b - a) |-> Elem(a + i - 1)]

\* self.iter.next()
SrcNext(p) ==
  IF p < L THEN [pos |-> p + 1, ret |-> Some(Elem(p))]
           ELSE [pos |-> p, ret |-> None]

\* self.iter.advance_by(k): Err(a) reports the a < k elements advanced
SrcAdvanceBy(p, k) ==
  IF k <= L - p THEN [pos |-> p + k, ret |-> Ok]
                ELSE [pos |-> L, ret |-> Err(L - p)]

\* self.iter.nth(k): advance_by(k).ok()? ; next()
SrcNth(p, k) ==
  LET a == SrcAdvanceBy(p, k)
  IN  IF a.ret.tag = "Err" THEN [pos |-> a.pos, ret |-> None]
                           ELSE SrcNext(a.pos)

\* self.iter.count()
SrcCount(p) == [pos |-> L, ret |-> Counted(L - p)]

\* self.iter.last()
SrcLast(p) ==
  [pos |-> L, ret |-> IF p < L THEN Some(Elem(L - 1)) ELSE None]

\* self.iter.fold(init, f), f appending each element to the accumulator
SrcFold(p) == [pos |-> L, ret |-> Acc(Range(p, L))]

\* self.iter.try_fold(init, f), f appending and breaking on the lim-th
\* element it receives (lim = 0: it never breaks)
SrcTryFold(p, lim) ==
  IF lim > 0 /\ lim <= L - p
    THEN [pos |-> p + lim, ret |-> Break(Range(p, p + lim))]
    ELSE [pos |-> L, ret |-> Acc(Range(p, L))]

\* how a source answers size_hint: exactly (a slice iterator, as in
\* tests::it_works) or without an upper bound
HintKinds == {"exact", "unknown"}
\* self.iter.size_hint(): (lower, upper), upper None when unknown or too large
SrcSizeHint(kind, p) ==
  LET rem == L - p
  IN  CASE kind = "exact" ->
             IF rem <= MaxUsize THEN [lo |-> rem, hi |-> Some(rem)]
                                ELSE [lo |-> MaxUsize, hi |-> None]
        [] OTHER -> [lo |-> 0, hi |-> None]

\* ---- Skip<I> ----
\* Skip::next paying off one element too many: nth(n) for nth(n - 1)
SkipNextOffByOne(p, m) ==
  LET p1 == IF m > 0 THEN SrcNth(p, m).pos ELSE p
      r == SrcNext(p1)
  IN  [pos |-> r.pos, n |-> 0, ret |-> r.ret, ovf |-> FALSE]

\* Skip::next reading n without mem::take, so that n stays pending
SkipNextRepaysPending(p, m) ==
  LET p1 == IF m > 0 THEN SrcNth(p, m - 1).pos ELSE p
      r == SrcNext(p1)
  IN  [pos |-> r.pos, n |-> m, ret |-> r.ret, ovf |-> FALSE]

\* Skip::next
SkipNext(p, m) ==
  LET p1 == IF m > 0 THEN SrcNth(p, m - 1).pos ELSE p
      r == SrcNext(p1)
  IN  [pos |-> r.pos, n |-> 0, ret |-> r.ret, ovf |-> FALSE]

\* Skip::nth
SkipNth(p, m, k) ==
  LET a == SrcNth(p, m - 1)
  IN  IF m > 0 /\ a.ret = None
        THEN [pos |-> a.pos, n |-> 0, ret |-> None, ovf |-> FALSE]
        ELSE LET b == SrcNth(IF m > 0 THEN a.pos ELSE p, k)
             IN  [pos |-> b.pos, n |-> 0, ret |-> b.ret, ovf |-> FALSE]

\* Skip::count (takes self by value: n is not written)
SkipCount(p, m) ==
  LET a == SrcNth(p, m - 1)
  IN  IF m > 0 /\ a.ret = None
        THEN [pos |-> a.pos, n |-> m, ret |-> Counted(0), ovf |-> FALSE]
        ELSE LET b == SrcCount(IF m > 0 THEN a.pos ELSE p)
             IN  [pos |-> b.pos, n |-> m, ret |-> b.ret, ovf |-> FALSE]

\* Skip::last (takes self by value)
SkipLast(p, m) ==
  LET a == SrcNth(p, m - 1)
  IN  IF m > 0 /\ a.ret = None
        THEN [pos |-> a.pos, n |-> m, ret |-> None, ovf |-> FALSE]
        ELSE LET b == SrcLast(IF m > 0 THEN a.pos ELSE p)
             IN  [pos |-> b.pos, n |-> m, ret |-> b.ret, ovf |-> FALSE]

\* Skip::size_hint
SkipSizeHint(kind, p, m) ==
  LET h == SrcSizeHint(kind, p)
  IN  [lo |-> SatSub(h.lo, m),
       hi |-> IF h.hi = None THEN None ELSE Some(SatSub(h.hi.v[1], m))]

\* Skip::try_fold
SkipTryFold(p, m, lim) ==
  LET a == SrcNth(p, m - 1)
  IN  IF m > 0 /\ a.ret = None
        THEN [pos |-> a.pos, n |-> 0, ret |-> Acc(<< >>), ovf |-> FALSE]
        ELSE LET b == SrcTryFold(IF m > 0 THEN a.pos ELSE p, lim)
             IN  [pos |-> b.pos, n |-> 0, ret |-> b.ret, ovf |-> FALSE]

\* Skip::fold (takes self by value)
SkipFold(p, m) ==
  LET a == SrcNth(p, m - 1)
  IN  IF m > 0 /\ a.ret = None
        THEN [pos |-> a.pos, n |-> m, ret |-> Acc(<< >>), ovf |-> FALSE]
        ELSE LET b == SrcFold(IF m > 0 THEN a.pos ELSE p)
             IN  [pos |-> b.pos, n |-> m, ret |-> b.ret, ovf |-> FALSE]

\* Skip::advance_by without the second call that recovers a saturated step_one
SkipAdvanceByNoRecovery(p, m, k) ==
  LET step_one == SatAdd(m, k)
      a == SrcAdvanceBy(p, step_one)
  IN  IF a.ret.tag = "Err"
        THEN [pos |-> a.pos, n |-> SatSub(m, a.ret.v[1]),
              ret |-> IF k = 0 THEN Ok ELSE Err(SatSub(a.ret.v[1], m)),
              ovf |-> FALSE]
        ELSE [pos |-> a.pos, n |-> 0, ret |-> Ok, ovf |-> FALSE]

\* Skip::advance_by reporting Err(advanced), the pending part included
SkipAdvanceByOverReport(p, m, k) ==
  LET step_one == SatAdd(m, k)
      a == SrcAdvanceBy(p, step_one)
  IN  IF a.ret.tag = "Err"
        THEN [pos |-> a.pos, n |-> SatSub(m, a.ret.v[1]),
              ret |-> IF k = 0 THEN Ok ELSE Err(a.ret.v[1]),
              ovf |-> FALSE]
        ELSE LET rem == k - (step_one - m)
                 b == SrcAdvanceBy(a.pos, rem)
             IN  IF rem > 0 /\ b.ret.tag = "Err"
                   THEN [pos |-> b.pos, n |-> 0,
                         ret |-> Err(k - (rem - b.ret.v[1])), ovf |-> FALSE]
                   ELSE [pos |-> IF rem > 0 THEN b.pos ELSE a.pos, n |-> 0,
                         ret |-> Ok, ovf |-> FALSE]

\* Skip::advance_by clearing n when the source runs out
SkipAdvanceByClearsPending(p, m, k) ==
  LET step_one == SatAdd(m, k)
      a == SrcAdvanceBy(p, step_one)
  IN  IF a.ret.tag = "Err"
        THEN [pos |-> a.pos, n |-> 0,
              ret |-> IF k = 0 THEN Ok ELSE Err(SatSub(a.ret.v[1], m)),
              ovf |-> FALSE]
        ELSE LET rem == k - (step_one - m)
                 b == SrcAdvanceBy(a.pos, rem)
             IN  IF rem > 0 /\ b.ret.tag = "Err"
                   THEN [pos |-> b.pos, n |-> 0,
                         ret |-> Err(k - (rem - b.ret.v[1])), ovf |-> FALSE]
                   ELSE [pos |-> IF rem > 0 THEN b.pos ELSE a.pos, n |-> 0,
                         ret |-> Ok, ovf |-> FALSE]

\* Skip::advance_by; the plain subtractions carry overflow checks
\* (#[rustc_inherit_overflow_checks]), reported in ovf
SkipAdvanceBy(p, m, k) ==
  LET step_one == SatAdd(m, k)
      a == SrcAdvanceBy(p, step_one)
  IN  IF a.ret.tag = "Err"
        THEN LET advanced == a.ret.v[1]
                 advanced_without_skip == SatSub(advanced, m)
             IN  [pos |-> a.pos, n |-> SatSub(m, advanced),
                  ret |-> IF k = 0 THEN Ok ELSE Err(advanced_without_skip),
                  ovf |-> FALSE]
        ELSE LET o1 == step_one - m < 0 \/ k - (step_one - m) < 0
                 rem == k - (step_one - m)
             IN  IF rem > 0
                   THEN LET b == SrcAdvanceBy(a.pos, rem)
                        IN  IF b.ret.tag = "Ok"
                              THEN [pos |-> b.pos, n |-> 0, ret |-> Ok, ovf |-> o1]
                              ELSE LET rem2 == rem - b.ret.v[1]
                                   IN  [pos |-> b.pos, n |-> 0,
                                        ret |-> Err(k - rem2),
                                        ovf |-> o1 \/ rem2 < 0 \/ k - rem2 < 0]
                   ELSE [pos |-> a.pos, n |-> 0, ret |-> Ok, ovf |-> o1]

\* ---- Skak ----
\* iter.clone().take(index).collect() over a bare source (Skak::new):
\* the items collected and where the duplicate's cursor ends
TakeCollectSrc(p, index) ==
  [items |-> Range(p, Min(L, p + index)), pos |-> Min(L, p + index)]

\* iter.clone().take(index).collect() over a Skak<Skip<I>> (Skak::skip):
\* Take::next calls Skak::next = Skip::next until index items or the first None
RECURSIVE TakeCollect(_, _, _, _)
TakeCollect(p, m, index, acc) ==
  IF index = 0
    THEN [items |-> acc, pos |-> p]
    ELSE LET r == SkipNext(p, m)
         IN  IF r.ret = None
               THEN [items |-> acc, pos |-> r.pos]
               ELSE TakeCollect(r.pos, r.n, index - 1, acc \o r.ret.v)

\* n += index adding one too many
AddPendingOffByOne(m, index) == m + index + 1

\* iter.iter.n += index, when the sum fits
AddPending(m, index) == m + index
\* ... and as a release build wraps it when it does not
WrapPending(m, index) == (m + index) % (MaxUsize + 1)

\* one more visit for the elements at positions from .. to-1
Bump(vis, from, to) ==
  [i \in DOMAIN vis |-> IF from <= i /\ i < to THEN vis[i] + 1 ELSE vis[i]]

Init ==
  /\ L \in 0..MaxLen
  /\ phase = "fresh"
  /\ pos = 0
  /\ n = 0
  /\ taken = << >>
  /\ origin = "-"
  /\ s0 = 0
  /\ lastOp = "-"
  /\ arg = 0
  /\ ret = NoRet
  /\ pre = [pos |-> 0, n |-> 0]
  /\ ovf = FALSE
  /\ calls = 0
  /\ sumk = 0
  /\ delivered = << >>
  /\ ref = 0
  /\ refRet = NoRet
  /\ produced = << >>
  /\ usage = "none"
  /\ visitsMat = [i \in 0..(MaxLen - 1) |-> 0]
  /\ visitsCont = [i \in 0..(MaxLen - 1) |-> 0]

\* Skip::new(iter, n)
SkipNew(s) ==
  /\ phase = "fresh"
  /\ phase' = "live"
  /\ n' = s
  /\ origin' = "Skip::new"
  /\ s0' = s
  /\ sumk' = s
  /\ ref' = Min(L, s)
  /\ lastOp' = "Skip::new"
  /\ arg' = s
  /\ pre' = [pos |-> pos, n |-> n]
  /\ UNCHANGED <<L, pos, taken, ret, ovf, calls, delivered, refRet,
                 produced, usage, visitsMat, visitsCont>>

\* Skak::new(iter, index)
SkakNew(index) ==
  /\ phase = "fresh"
  /\ LET t == TakeCollectSrc(pos, index)
     IN  /\ taken' = t.items
         /\ delivered' = t.items
         /\ visitsMat' = Bump(visitsMat, pos, t.pos)
  /\ phase' = "live"
  /\ n' = index
  /\ origin' = "Skak::new"
  /\ s0' = index
  /\ sumk' = index
  /\ calls' = 1
  /\ ref' = Min(L, index)
  /\ lastOp' = "Skak::new"
  /\ arg' = index
  /\ pre' = [pos |-> pos, n |-> n]
  /\ UNCHANGED <<L, pos, ret, ovf, refRet, produced, usage, visitsCont>>

\* Skak::skip(iter, index), the addition fitting in usize
SkakSkipFits(index) ==
  /\ phase = "live"
  /\ calls < MaxCalls
  /\ n + index <= MaxUsize
  /\ LET t == TakeCollect(pos, n, index, << >>)
     IN  /\ taken' = t.items
         /\ delivered' = delivered \o t.items
         /\ visitsMat' = Bump(visitsMat, pos, t.pos)
  /\ n' = AddPending(n, index)
  /\ ovf' = FALSE
  /\ calls' = calls + 1
  /\ sumk' = sumk + index
  /\ ref' = Min(L, ref + index)
  /\ lastOp' = "Skak::skip"
  /\ arg' = index
  /\ pre' = [pos |-> pos, n |-> n]
  /\ UNCHANGED <<L, phase, pos, origin, s0, ret, refRet, produced,
                 usage, visitsCont>>

\* Skak::skip(iter, index), n += index overflowing, overflow checks on:
\* the addition panics after the window was collected
SkakSkipPanics(index) ==
  /\ phase = "live"
  /\ calls < MaxCalls
  /\ n + index > MaxUsize
  /\ LET t == TakeCollect(pos, n, index, << >>)
     IN  visitsMat' = Bump(visitsMat, pos, t.pos)
  /\ phase' = "panicked"
  /\ ovf' = TRUE
  /\ calls' = calls + 1
  /\ sumk' = sumk + index
  /\ ref' = Min(L, ref + index)
  /\ lastOp' = "Skak::skip"
  /\ arg' = index
  /\ pre' = [pos |-> pos, n |-> n]
  /\ UNCHANGED <<L, pos, n, taken, origin, s0, ret, delivered, refRet,
                 produced, usage, visitsCont>>

\* Skak::skip(iter, index), n += index overflowing, overflow checks off:
\* the addition wraps
SkakSkipWraps(index) ==
  /\ phase = "live"
  /\ calls < MaxCalls
  /\ n + index > MaxUsize
  /\ LET t == TakeCollect(pos, n, index, << >>)
     IN  /\ taken' = t.items
         /\ delivered' = delivered \o t.items
         /\ visitsMat' = Bump(visitsMat, pos, t.pos)
  /\ n' = WrapPending(n, index)
  /\ ovf' = TRUE
  /\ calls' = calls + 1
  /\ sumk' = sumk + index
  /\ ref' = Min(L, ref + index)
  /\ lastOp' = "Skak::skip"
  /\ arg' = index
  /\ pre' = [pos |-> pos, n |-> n]
  /\ UNCHANGED <<L, phase, pos, origin, s0, ret, refRet, produced,
                 usage, visitsCont>>

\* a consuming operation op(a) of the Skip: r is what the Skip does, e what
\* the same operation does on the reference source, ph the phase it leaves
Consume(op, a, r, e, ph) ==
  /\ phase = "live"
  /\ phase' = ph
  /\ pos' = r.pos
  /\ n' = r.n
  /\ ret' = r.ret
  /\ ovf' = r.ovf
  /\ ref' = e.pos
  /\ refRet' = e.ret
  /\ lastOp' = op
  /\ arg' = a
  /\ pre' = [pos |-> pos, n |-> n]
  /\ visitsCont' = Bump(visitsCont, pos, r.pos)
  /\ usage' = IF usage # "mixed" /\ op = "next" THEN "next" ELSE "mixed"
  /\ produced' = IF usage' = "mixed" THEN << >>
                 ELSE IF r.ret # None THEN produced \o r.ret.v ELSE produced
  /\ UNCHANGED <<L, taken, origin, s0, calls, sumk, delivered, visitsMat>>

Next_ == Consume("next", 0, SkipNext(pos, n), SrcNext(ref), "live")
Nth(k) == Consume("nth", k, SkipNth(pos, n, k), SrcNth(ref, k), "live")
TryFold(lim) ==
  Consume("try_fold", lim, SkipTryFold(pos, n, lim), SrcTryFold(ref, lim), "live")
AdvanceBy(k) ==
  Consume("advance_by", k, SkipAdvanceBy(pos, n, k), SrcAdvanceBy(ref, k), "live")
\* Iterator::count of a source adds in usize: sources it would overflow on
\* are left out
Count ==
  /\ L - pos <= MaxUsize
  /\ Consume("count", 0, SkipCount(pos, n), SrcCount(ref), "consumed")
Last == Consume("last", 0, SkipLast(pos, n), SrcLast(ref), "consumed")
Fold == Consume("fold", 0, SkipFold(pos, n), SrcFold(ref), "consumed")

\* a Skip used on its own
NextSkip ==
  \/ \E s \in Usize : SkipNew(s)
  \/ Next_
  \/ \E k \in Usize : Nth(k)
  \/ \E lim \in Usize : TryFold(lim)
  \/ \E k \in Usize : AdvanceBy(k)
  \/ Count
  \/ Last
  \/ Fold

SpecSkip == Init /\ [][NextSkip]_vars

\* windows pulled through Skak, and the continuation consumed
Next ==
  \/ \E k \in Counts : SkakNew(k)
  \/ \E k \in Counts : SkakSkipFits(k)
  \/ \E k \in Counts : SkakSkipPanics(k)
  \/ \E k \in Counts : SkakSkipWraps(k)
  \/ Next_
  \/ \E k \in Counts : Nth(k)
  \/ \E lim \in Counts : TryFold(lim)
  \/ \E k \in Counts : AdvanceBy(k)
  \/ Count
  \/ Last
  \/ Fold

Spec == Init /\ [][Next]_vars

TypeOK ==
  /\ L \in 0..MaxLen
  /\ pos \in 0..L
  /\ phase \in {"fresh", "live", "consumed", "panicked"}
  /\ n \in Usize

Consuming == {"next", "nth", "try_fold", "advance_by", "count", "last", "fold"}
InPlace == {"next", "nth", "try_fold", "advance_by"}
Elems == 0..(MaxLen - 1)

\* ------------------------------------------------------------------------
\* C1: a Skip created by Skip::new(source, s) with s <= L behaves as the
\* source with its first s elements removed: every consuming operation
\* returns what the same operation returns on that source, and repeated next
\* yields the elements at positions s, s+1, ..., L-1 in order and then None.
C1_EagerEquivalence ==
  (origin = "Skip::new" /\ s0 <= L /\ lastOp \in Consuming) =>
    /\ ret = refRet
    /\ usage = "next" =>
         /\ produced = Range(s0, s0 + Len(produced))
         /\ s0 + Len(produced) <= L
         /\ ret = None => produced = Range(s0, L)
         /\ ret # None => ret = Some(produced[Len(produced)])

\* next has run through a source with elements before and after the skip
C1_Witness ==
  /\ origin = "Skip::new" /\ s0 > 0 /\ s0 + 1 < L
  /\ usage = "next" /\ lastOp = "next" /\ ret = None
  /\ produced = Range(s0, L)

\* an operation other than next agreed with the eager source after a skip
C1_WitnessOps ==
  /\ origin = "Skip::new" /\ s0 > 0 /\ s0 < L
  /\ lastOp \in {"nth", "try_fold", "advance_by", "count", "last", "fold"}
  /\ pre.n = s0

\* ------------------------------------------------------------------------
\* C3: advance_by(k) on a Skip with pending p over a source with r elements
\* left, m = max(0, r - p) of them available after the skip, returns Ok(())
\* iff k <= m and Err(m) otherwise, also when p + k saturates.
C3_AdvanceByExact ==
  lastOp = "advance_by" =>
    LET m == Max(0, (L - pre.pos) - pre.n)
    IN  ret = IF arg <= m THEN Ok ELSE Err(m)

\* p + k saturated, the first call succeeded and the second fell short
C3_Witness ==
  /\ lastOp = "advance_by"
  /\ pre.n > 0
  /\ pre.n + arg > MaxUsize
  /\ L - pre.pos >= MaxUsize
  /\ ret.tag = "Err"

\* ------------------------------------------------------------------------
\* C10: when advance_by(k) with pending p runs out of source after advancing
\* a < p + k elements it reports Err(max(0, a - p)) (Ok(()) when k = 0) and
\* leaves pending = max(0, p - a); when the source does not run out it
\* returns Ok(()) with pending = 0.
C10_ShortReport ==
  lastOp = "advance_by" =>
    LET a == pos - pre.pos
        p == pre.n
    IN  IF a < p + arg
          THEN /\ ret = IF arg = 0 THEN Ok ELSE Err(Max(0, a - p))
               /\ n = Max(0, p - a)
          ELSE /\ ret = Ok
               /\ n = 0

\* the source ran out while part of the pending count was still unpaid
C10_Witness ==
  /\ lastOp = "advance_by"
  /\ arg > 0
  /\ pos - pre.pos > 0
  /\ pos - pre.pos < pre.n
  /\ n > 0
  /\ ret = Err(0)

\* ------------------------------------------------------------------------
\* C7: Skak::skip(continuation, 0) returns an empty buffer and leaves the
\* continuation's source position and pending count as they were.
C7_ZeroWindow ==
  [][(lastOp' = "Skak::skip" /\ arg' = 0 /\ calls' = calls + 1) =>
       /\ taken' = << >>
       /\ delivered' = delivered
       /\ pos' = pos
       /\ n' = n
       /\ phase' = phase
       /\ visitsMat' = visitsMat]_vars

\* a zero-length window was requested where a longer one would not be empty
C7_Witness ==
  /\ lastOp = "Skak::skip" /\ arg = 0
  /\ n > 0 /\ n = pre.n
  /\ pos + n < L
  /\ taken = << >>
  /\ phase = "live"

C9_PendingBounded ==
  [][/\ phase' = "live" => n' <= L - pos'
     /\ n' < n => n - n' <= pos' - pos]_vars

\* C9 amended: pending may exceed what is left; in next, nth and try_fold
\* started with pending <= elements left, and in advance_by always, pending
\* decreases by no more than the source advanced in the operation.
C9_PaidByAdvance ==
  [][(lastOp' \in InPlace /\ (n <= L - pos \/ lastOp' = "advance_by")) =>
       n - n' <= pos' - pos]_vars

\* a pending count was paid off by next on a source that had that many left
C9_Witness ==
  /\ lastOp = "next"
  /\ pre.n > 0 /\ pre.n < L - pre.pos
  /\ n = 0
  /\ pos = pre.pos + pre.n + 1

\* ------------------------------------------------------------------------
\* C2 as stated: after pending was set to s1 and then increased by s2 the
\* Skip is observationally the single Skip of s1 + s2 over the same source.
C2_ComposedIsSingle ==
  lastOp = "Skak::skip" =>
    LET single == pre.n + arg
    IN  /\ phase = "live"
        /\ SkipNext(pos, n).ret = SkipNext(pos, single).ret
        /\ SkipNext(pos, n).pos = SkipNext(pos, single).pos
        /\ SkipCount(pos, n).ret = SkipCount(pos, single).ret
        /\ SkipLast(pos, n).ret = SkipLast(pos, single).ret
        /\ SkipFold(pos, n).ret = SkipFold(pos, single).ret
        /\ \A k \in Usize :
             /\ SkipAdvanceBy(pos, n, k).ret = SkipAdvanceBy(pos, single, k).ret
             /\ SkipAdvanceBy(pos, n, k).pos = SkipAdvanceBy(pos, single, k).pos

\* ------------------------------------------------------------------------
\* C4 as stated: after Skak::new and any number of Skak::skip calls the
\* buffers concatenate to the source's prefix of length min(L, sum of ki)
\* and the continuation yields the remaining max(0, L - sum of ki) elements.
C4_WindowsPartition ==
  (origin = "Skak::new" /\ usage = "none") =>
    /\ phase = "live"
    /\ delivered = Range(0, Min(L, sumk))
    /\ SkipFold(pos, n).ret = Acc(Range(Min(L, sumk), L))

\* ------------------------------------------------------------------------
\* C5 as stated: after windows that delivered d elements the continuation's
\* size_hint is the source's with d subtracted from the lower bound and from
\* the upper bound when there is one.
C5_SizeHintMinusDelivered ==
  (origin = "Skak::new" /\ usage = "none") =>
    /\ phase = "live"
    /\ \A kind \in HintKinds :
         LET h == SrcSizeHint(kind, 0)
             d == Len(delivered)
         IN  SkipSizeHint(kind, pos, n) =
               [lo |-> SatSub(h.lo, d),
                hi |-> IF h.hi = None THEN None ELSE Some(SatSub(h.hi.v[1], d))]

\* ------------------------------------------------------------------------
\* C6 as stated: no arithmetic on skip counts overflows or panics.
C6_NoOverflow ==
  ~ovf /\ phase # "panicked"
====
